---- MODULE Spec2Model ----
(***************************************************************************)
(* Shabbat Times API (src/main.py): a FastAPI application that resolves a  *)
(* city slug in a fixed catalog, calls hebcal.com once and reshapes the    *)
(* reply into a ShabbatTimes record.                                       *)
(*                                                                         *)
(* Representation.                                                         *)
(*  - A Python str is a sequence of one-character strings ("a:b" is        *)
(*    <<"a", ":", "b">>), so that `in`, split and strip are computed.      *)
(*    Identifiers that the code only compares (slugs, categories, tzids,   *)
(*    display names) are TLA+ strings.                                     *)
(*  - An Optional value is a sequence of length <= 1: None is <<>> and a   *)
(*    present value v is <<v>>; None and the empty str stay distinct.      *)
(*  - A latitude or longitude is an integer number of 1e-4 degrees.        *)
(***************************************************************************)
EXTENDS Integers, Sequences, FiniteSets

\* ------------------------------------------------------------------ bounds

\* Number of HTTP requests the server handles in one behaviour.
NReq == 2

\* Number of times the server's local date may change during a behaviour.
MaxDay == 1

\* Longest title drawn for an upstream item of the normalizer specification.
MaxTitleLen == 3

\* Longest items list drawn for the normalizer specification.
MaxItems == 2

\* ------------------------------------------------------- program constants

\* requests.get(url, timeout=10)
Timeout == 10

\* the "&m=50" query parameter of the provider URL
HavdalahMinutes == 50

\* ----------------------------------------------------------------- Optional

None == << >>

Some(v) == << v >>

\* Python truthiness of an Optional[str]: None and "" are falsy.
Truthy(o) == o # None /\ o[1] # << >>

\* Python's `a or b` on two Optional[str] values.
PyOr(a, b) == IF Truthy(a) THEN a ELSE b

\* ------------------------------------------------------------------ strings

\* Characters str.strip() removes (the model's alphabet has the blank only).
Whitespace == {" "}

\* `":" in s`
ContainsColon(s) == \E i \in 1..Len(s) : s[i] = ":"

\* s.split(":", 1)[1] for a str that contains a colon: what follows the
\* first colon, later colons included.
AfterFirstColon(s) ==
    LET first == CHOOSE i \in 1..Len(s) :
                     s[i] = ":" /\ \A j \in 1..(i - 1) : s[j] # ":"
    IN  SubSeq(s, first + 1, Len(s))

\* s.strip()
Strip(s) ==
    LET keep == {i \in 1..Len(s) : s[i] \notin Whitespace}
    IN  IF keep = {} THEN << >>
        ELSE LET lo == CHOOSE i \in keep : \A j \in keep : i <= j
                 hi == CHOOSE i \in keep : \A j \in keep : j <= i
             IN  SubSeq(s, lo, hi)

\* ------------------------------------------------------------------ catalog

City(slug, name, country, latitude, longitude, tzid) ==
    [slug |-> slug, name |-> name, country |-> country,
     latitude |-> latitude, longitude |-> longitude, tzid |-> tzid]

\* The catalog with the copy-and-paste slip of an entry that kept its
\* neighbour's slug (Tel Aviv declared with slug "jerusalem").
CITIES_DuplicateSlug ==
    << City("new-york", "New York", "USA", 407128, -740060, "America/New_York"),
       City("los-angeles", "Los Angeles", "USA", 340522, -1182437, "America/Los_Angeles"),
       City("miami", "Miami", "USA", 257617, -801918, "America/New_York"),
       City("london", "London", "UK", 515072, -1276, "Europe/London"),
       City("paris", "Paris", "France", 488566, 23522, "Europe/Paris"),
       City("jerusalem", "Jerusalem", "Israel", 317683, 352137, "Asia/Jerusalem"),
       City("jerusalem", "Tel Aviv", "Israel", 320853, 347818, "Asia/Jerusalem"),
       City("toronto", "Toronto", "Canada", 436532, -793832, "America/Toronto"),
       City("montreal", "Montreal", "Canada", 455019, -735674, "America/Toronto"),
       City("sydney", "Sydney", "Australia", -338688, 1512093, "Australia/Sydney"),
       City("melbourne", "Melbourne", "Australia", -378136, 1449631, "Australia/Melbourne"),
       City("johannesburg", "Johannesburg", "South Africa", -262041, 280473, "Africa/Johannesburg"),
       City("mexico-city", "Mexico City", "Mexico", 194326, -991332, "America/Mexico_City"),
       City("buenos-aires", "Buenos Aires", "Argentina", -346037, -583816, "America/Argentina/Buenos_Aires"),
       City("sao-paulo", "Sao Paulo", "Brazil", -235505, -466333, "America/Sao_Paulo"),
       City("madrid", "Madrid", "Spain", 404168, -37038, "Europe/Madrid"),
       City("rome", "Rome", "Italy", 419028, 124964, "Europe/Rome"),
       City("moscow", "Moscow", "Russia", 557558, 376173, "Europe/Moscow"),
       City("singapore", "Singapore", "Singapore", 13521, 1038198, "Asia/Singapore"),
       City("hong-kong", "Hong Kong", "China", 223193, 1141694, "Asia/Hong_Kong") >>

\* CITIES as declared, in declaration order.  (The display name of the
\* sao-paulo entry is written without its tilde; no operation reads it.)
CITIES ==
    << City("new-york", "New York", "USA", 407128, -740060, "America/New_York"),
       City("los-angeles", "Los Angeles", "USA", 340522, -1182437, "America/Los_Angeles"),
       City("miami", "Miami", "USA", 257617, -801918, "America/New_York"),
       City("london", "London", "UK", 515072, -1276, "Europe/London"),
       City("paris", "Paris", "France", 488566, 23522, "Europe/Paris"),
       City("jerusalem", "Jerusalem", "Israel", 317683, 352137, "Asia/Jerusalem"),
       City("tel-aviv", "Tel Aviv", "Israel", 320853, 347818, "Asia/Jerusalem"),
       City("toronto", "Toronto", "Canada", 436532, -793832, "America/Toronto"),
       City("montreal", "Montreal", "Canada", 455019, -735674, "America/Toronto"),
       City("sydney", "Sydney", "Australia", -338688, 1512093, "Australia/Sydney"),
       City("melbourne", "Melbourne", "Australia", -378136, 1449631, "Australia/Melbourne"),
       City("johannesburg", "Johannesburg", "South Africa", -262041, 280473, "Africa/Johannesburg"),
       City("mexico-city", "Mexico City", "Mexico", 194326, -991332, "America/Mexico_City"),
       City("buenos-aires", "Buenos Aires", "Argentina", -346037, -583816, "America/Argentina/Buenos_Aires"),
       City("sao-paulo", "Sao Paulo", "Brazil", -235505, -466333, "America/Sao_Paulo"),
       City("madrid", "Madrid", "Spain", 404168, -37038, "Europe/Madrid"),
       City("rome", "Rome", "Italy", 419028, 124964, "Europe/Rome"),
       City("moscow", "Moscow", "Russia", 557558, 376173, "Europe/Moscow"),
       City("singapore", "Singapore", "Singapore", 13521, 1038198, "Asia/Singapore"),
       City("hong-kong", "Hong Kong", "China", 223193, 1141694, "Asia/Hong_Kong") >>

\* A lookup that folds the case of the requested slug before comparing.
FoldCase(s) == IF s = "London" THEN "london" ELSE s

FindCity_IgnoreCase(cities, city) ==
    LET hits == {i \in 1..Len(cities) : cities[i].slug = FoldCase(city)}
    IN  IF hits = {} THEN None
        ELSE Some(cities[CHOOSE i \in hits : \A j \in hits : i <= j])

\* next((c for c in CITIES if c.slug == city), None): the first entry, in
\* list order, whose slug equals the argument exactly.
FindCity(cities, city) ==
    LET hits == {i \in 1..Len(cities) : cities[i].slug = city}
    IN  IF hits = {} THEN None
        ELSE Some(cities[CHOOSE i \in hits : \A j \in hits : i <= j])

\* --------------------------------------------------------- upstream payload

\* One entry of the provider's "items" list; item.get(k) is the field k,
\* None when the key is missing.
Item(category, title, hebrew) ==
    [category |-> category, title |-> title, hebrew |-> hebrew]

\* r.json() of a body that decodes to a JSON object; items is None when
\* the object has no "items" key.
JsonObject(items) == [kind |-> "object", items |-> items]

\* A body that decodes to JSON which is not an object.
JsonArray == [kind |-> "array", items |-> None]

\* A body that is not JSON (an HTML error page, an empty body).
NotJson == [kind |-> "text", items |-> None]

\* data.get("items", [])
ItemsOf(data) == IF data.items = None THEN << >> ELSE data.items[1]

\* --------------------------------------------------------------- normalizer

\* Lines 84-87: the title, cut after its first colon when it has one.
ExtractCandle(title) ==
    IF Truthy(title) /\ ContainsColon(title[1])
    THEN Some(Strip(AfterFirstColon(title[1])))
    ELSE title

\* Lines 89-91: havdalah is assigned only when the title has a colon.
ExtractHavdalah(havdalah, hv) ==
    IF Truthy(hv) /\ ContainsColon(hv[1])
    THEN Some(Strip(AfterFirstColon(hv[1])))
    ELSE havdalah

\* Line 93
ExtractParsha(item) == PyOr(item.hebrew, item.title)

\* One pass of the loop body over `item`; acc holds candle, havdalah, parsha.
LoopBody(acc, item) ==
    LET cat == item.category
    IN  [candle   |-> IF cat = Some("candles") /\ acc.candle = None
                      THEN ExtractCandle(item.title)
                      ELSE acc.candle,
         havdalah |-> IF cat = Some("havdalah") /\ acc.havdalah = None
                      THEN ExtractHavdalah(acc.havdalah, item.title)
                      ELSE acc.havdalah,
         parsha   |-> IF cat = Some("parashat") /\ acc.parsha = None
                      THEN ExtractParsha(item)
                      ELSE acc.parsha]

RECURSIVE Loop(_, _)
\* The for loop of lines 81-93, items taken in list order.
Loop(acc, items) ==
    IF items = << >> THEN acc
    ELSE Loop(LoopBody(acc, Head(items)), Tail(items))

\* Lines 77-93
Normalize(data) ==
    Loop([candle |-> None, havdalah |-> None, parsha |-> None], ItemsOf(data))

\* ---------------------------------------------------------------- responses

\* What the framework sends for `raise HTTPException(status_code, detail)`.
HTTPException(status_code, detail) ==
    [status |-> status_code, detail |-> detail, content |-> None]

\* What the framework sends when a handler returns a value.
Returned(content) == [status |-> 200, detail |-> "", content |-> Some(content)]

\* What the framework sends when a handler raises anything else.
InternalServerError ==
    [status |-> 500, detail |-> "Internal Server Error", content |-> None]

ShabbatTimes(city, date, parsha, candle_lighting, havdalah, raw) ==
    [city |-> city, date |-> date, parsha |-> parsha,
     candle_lighting |-> candle_lighting, havdalah |-> havdalah,
     source |-> "hebcal.com", raw |-> raw]

\* ---------------------------------------------------------- upstream client

\* The GET of lines 67-72: the query parameters and the timeout.
HebcalRequest(city) ==
    [cfg |-> "json", latitude |-> city.latitude, longitude |-> city.longitude,
     tzid |-> city.tzid, m |-> HavdalahMinutes, timeout |-> Timeout]

\* requests.get raised: no HTTP response was obtained.
TransportFailure(kind) == [kind |-> kind, status |-> 0, body |-> NotJson]

\* requests.get returned a response.
HttpResponse(status, body) == [kind |-> "response", status |-> status, body |-> body]

\* A success test that accepts the whole 2xx class.
StatusOk_Any2xx(status_code) == status_code \in 200..299

\* Line 73, negated: the only status the client accepts.
StatusOk(status_code) == status_code = 200

\* fetch_shabbat_times_from_hebcal from the return of requests.get on:
\* what the request is answered with.
FetchOutcome(city, date, rep) ==
    IF rep.kind # "response" THEN InternalServerError
    ELSE IF ~StatusOk(rep.status)
    THEN HTTPException(502, "Upstream provider error")
    ELSE IF rep.body.kind = "text" THEN InternalServerError
    ELSE IF rep.body.kind = "array" THEN InternalServerError
    ELSE LET data == rep.body
             n    == Normalize(data)
         IN  Returned(ShabbatTimes(city, date, n.parsha, n.candle,
                                   n.havdalah, data))

\* -------------------------------------------------------------------- state

VARIABLES
    catalog,    \* the module-level list CITIES
    today,      \* date.today(), counted in days from the start
    pc,         \* per request: "idle", "awaiting" (in requests.get), "done"
    route,      \* per request: the path it arrived on
    city,       \* per request: the `city` query parameter
    city_obj,   \* per request: the local city_obj of get_shabbat_times
    sent,       \* per request: the provider requests issued for it, in order
    reply,      \* per request: what requests.get ended with
    response    \* per request: the HTTP response sent to the client

vars == << catalog, today, pc, route, city, city_obj, sent, reply, response >>

Requests == 1..NReq

\* The response of request r, once it has one.
Resp(r) == response[r][1]

\* ------------------------------------------------------------------- inputs

\* Values of the `city` query parameter: catalog slugs, a slug that differs
\* from one in case only, and an unknown one.
Slugs == {"new-york", "london", "London", "atlantis"}

\* The example payload of the provider contract.
ExampleItems ==
    << Item(Some("candles"), Some(<< "C", ":", " ", "7", ":", "0", "1" >>), None),
       Item(Some("havdalah"), Some(<< "H", ":", " ", "8", ":", "1", "5" >>), None),
       Item(Some("parashat"), Some(<< "N", "o", "a", "c", "h" >>), Some(<< "n", "h" >>)) >>

\* What one call of requests.get can end with, for the server specification.
Replies ==
    {TransportFailure("timeout"), TransportFailure("connection_error")}
    \cup {HttpResponse(200, b) :
            b \in {JsonObject(Some(ExampleItems)), JsonObject(None), JsonArray, NotJson}}
    \cup {HttpResponse(201, b) : b \in {JsonObject(Some(ExampleItems)), NotJson}}
    \cup {HttpResponse(204, NotJson), HttpResponse(404, NotJson)}
    \cup {HttpResponse(500, b) : b \in {JsonObject(Some(ExampleItems)), NotJson}}

\* --------------------------------------------------------------------- Init

Init ==
    /\ catalog = CITIES
    /\ today = 0
    /\ pc = [r \in Requests |-> "idle"]
    /\ route = [r \in Requests |-> ""]
    /\ city = [r \in Requests |-> ""]
    /\ city_obj = [r \in Requests |-> None]
    /\ sent = [r \in Requests |-> << >>]
    /\ reply = [r \in Requests |-> None]
    /\ response = [r \in Requests |-> None]

\* ------------------------------------------------------------------ actions

\* A request that is answered without a provider call.
Answer(r, path, resp) ==
    /\ pc[r] = "idle"
    /\ pc' = [pc EXCEPT ![r] = "done"]
    /\ route' = [route EXCEPT ![r] = path]
    /\ response' = [response EXCEPT ![r] = Some(resp)]
    /\ UNCHANGED << today, city, city_obj, sent, reply >>

\* GET /
read_root(r) ==
    /\ Answer(r, "/", Returned([message |-> "Shabbat Times API is running"]))
    /\ UNCHANGED catalog

\* A list_cities that puts the list in another order in place before
\* returning it.
list_cities_ReordersInPlace(r) ==
    /\ catalog' = [i \in 1..Len(catalog) |-> catalog[Len(catalog) + 1 - i]]
    /\ Answer(r, "/api/cities", Returned(catalog'))

\* GET /api/cities
list_cities(r) ==
    /\ Answer(r, "/api/cities", Returned(catalog))
    /\ UNCHANGED catalog

\* GET /test
test_database(r) ==
    /\ Answer(r, "/test",
              Returned([backend |-> "Running", cities_count |-> Len(catalog),
                        example_city |-> catalog[1]]))
    /\ UNCHANGED catalog

\* GET /api/shabbat?city=slug, up to the point where the handler either
\* raises the 404 or blocks in requests.get.
get_shabbat_times(r, slug) ==
    /\ pc[r] = "idle"
    /\ route' = [route EXCEPT ![r] = "/api/shabbat"]
    /\ city' = [city EXCEPT ![r] = slug]
    /\ LET found == FindCity(catalog, slug)
       IN  IF found = None
           THEN /\ pc' = [pc EXCEPT ![r] = "done"]
                /\ response' = [response EXCEPT
                                  ![r] = Some(HTTPException(404, "City not found"))]
                /\ UNCHANGED << city_obj, sent >>
           ELSE /\ pc' = [pc EXCEPT ![r] = "awaiting"]
                /\ city_obj' = [city_obj EXCEPT ![r] = found]
                /\ sent' = [sent EXCEPT ![r] = Append(@, HebcalRequest(found[1]))]
                /\ UNCHANGED response
    /\ UNCHANGED << catalog, today, reply >>

\* A client that issues the provider request a second time when the first
\* attempt fails.
fetch_shabbat_times_from_hebcal_Retry(r, rep) ==
    /\ pc[r] = "awaiting"
    /\ reply' = [reply EXCEPT ![r] = Some(rep)]
    /\ IF (rep.kind # "response" \/ ~StatusOk(rep.status)) /\ Len(sent[r]) < 2
       THEN /\ sent' = [sent EXCEPT ![r] = Append(@, HebcalRequest(city_obj[r][1]))]
            /\ UNCHANGED << pc, response >>
       ELSE /\ pc' = [pc EXCEPT ![r] = "done"]
            /\ response' = [response EXCEPT
                              ![r] = Some(FetchOutcome(city_obj[r][1], today, rep))]
            /\ UNCHANGED sent
    /\ UNCHANGED << catalog, today, route, city, city_obj >>

\* requests.get ends with rep; the rest of fetch_shabbat_times_from_hebcal
\* runs and the request is answered.
fetch_shabbat_times_from_hebcal(r, rep) ==
    /\ pc[r] = "awaiting"
    /\ reply' = [reply EXCEPT ![r] = Some(rep)]
    /\ pc' = [pc EXCEPT ![r] = "done"]
    /\ response' = [response EXCEPT
                      ![r] = Some(FetchOutcome(city_obj[r][1], today, rep))]
    /\ UNCHANGED << catalog, today, route, city, city_obj, sent >>

\* The server's local date changes.
Midnight ==
    /\ today < MaxDay
    /\ today' = today + 1
    /\ UNCHANGED << catalog, pc, route, city, city_obj, sent, reply, response >>

Next ==
    \/ \E r \in Requests : read_root(r)
    \/ \E r \in Requests : list_cities(r)
    \/ \E r \in Requests : test_database(r)
    \/ \E r \in Requests : \E slug \in Slugs : get_shabbat_times(r, slug)
    \/ \E r \in Requests : \E rep \in Replies : fetch_shabbat_times_from_hebcal(r, rep)
    \/ Midnight

Spec == Init /\ [][Next]_vars

\* ------------------------------------------------ normalizer specification

\* Characters of the titles drawn below: a letter, the colon, the blank.
Alphabet == {"a", ":", " "}

\* Every str over Alphabet of length at most MaxTitleLen.
TitleStrings == UNION {[1..k -> Alphabet] : k \in 0..MaxTitleLen}

OptionalTitles == {None} \cup {Some(s) : s \in TitleStrings}

\* Upstream items: candles and havdalah entries with every title, parashat
\* entries with and without a hebrew label and a title (empty ones
\* included), an entry of another category and one with no category.
NormItems ==
    {Item(Some(c), t, None) : c \in {"candles", "havdalah"}, t \in OptionalTitles}
    \cup {Item(Some("parashat"), t, h) :
            t \in {None, Some(<< >>), Some(<< "a" >>)},
            h \in {None, Some(<< >>), Some(<< "h" >>)}}
    \cup {Item(Some("holiday"), Some(<< "a", ":", "a" >>), None), Item(None, None, None)}

\* Successful replies whose payload is any list of at most MaxItems items,
\* or has no "items" key.
NormReplies ==
    {HttpResponse(200, JsonObject(None))}
    \cup {HttpResponse(200, JsonObject(Some(items))) :
            items \in UNION {[1..k -> NormItems] : k \in 0..MaxItems}}

\* One request for a catalog city, answered from every payload above.
NextNorm ==
    \/ get_shabbat_times(1, "london")
    \/ \E rep \in NormReplies : fetch_shabbat_times_from_hebcal(1, rep)

SpecNorm == Init /\ [][NextNorm]_vars

\* ------------------------------------------------------------------ helpers

Categories == {"candles", "havdalah", "parashat"}

\* Request r was answered with a ShabbatTimes record.
Normalized(r) ==
    /\ pc[r] = "done"
    /\ route[r] = "/api/shabbat"
    /\ reply[r] # None
    /\ Resp(r).status = 200
    /\ Resp(r).content # None

\* The ShabbatTimes record request r was answered with.
Times(r) == Resp(r).content[1]

\* The items list the provider sent for request r.
ItemsSent(r) == ItemsOf(reply[r][1].body)

\* The response field that belongs to category c.
Field(times, c) ==
    CASE c = "candles"  -> times.candle_lighting
      [] c = "havdalah" -> times.havdalah
      [] c = "parashat" -> times.parsha

\* What normalizing the single item `item` yields for category c.
Alone(item, c) ==
    LET n == Normalize(JsonObject(Some(<< item >>)))
    IN  CASE c = "candles"  -> n.candle
          [] c = "havdalah" -> n.havdalah
          [] c = "parashat" -> n.parsha

\* Positions of the items of category c.
Of(items, c) == {i \in 1..Len(items) : items[i].category = Some(c)}

\* The first item of category c, when there is one.
First(items, c) == items[CHOOSE i \in Of(items, c) : \A j \in Of(items, c) : i <= j]

\* Request r got an HTTP response from the provider and has been answered.
AnsweredFromResponse(r) ==
    /\ pc[r] = "done"
    /\ reply[r] # None
    /\ reply[r][1].kind = "response"

\* Request r got no HTTP response from the provider and has been answered.
AnsweredFromFailure(r) ==
    /\ pc[r] = "done"
    /\ reply[r] # None
    /\ reply[r][1].kind # "response"

Is502(resp) == resp.status = 502 /\ resp.detail = "Upstream provider error"

CatalogSlugs == {catalog[i].slug : i \in 1..Len(catalog)}

\* ------------------------------------------------------------------- claims

\* C1: for each of the categories candles, havdalah and parashat, the
\* returned field is what the first item of that category yields on its
\* own (absent when the list has no such item), whatever follows it.
C1_FirstMatchWins ==
    \A r \in Requests : Normalized(r) =>
        \A c \in Categories :
            Field(Times(r), c) =
                IF Of(ItemsSent(r), c) = {} THEN None
                ELSE Alone(First(ItemsSent(r), c), c)

\* C2: from a single havdalah item the havdalah value equals the
\* candle_lighting value a single candles item with the same title gives;
\* a title without a colon is returned unchanged.
C2_HavdalahLikeCandles ==
    \A r \in Requests :
        (Normalized(r) /\ Len(ItemsSent(r)) = 1
         /\ ItemsSent(r)[1].category = Some("havdalah")) =>
            LET t == ItemsSent(r)[1].title
            IN  /\ Times(r).havdalah = Alone(Item(Some("candles"), t, None), "candles")
                /\ (t # None /\ ~ContainsColon(t[1])) => Times(r).havdalah = t

\* C6: candle_lighting is taken from the title of the first candles item:
\* what follows the first colon, trimmed, when the title has a colon; the
\* title unchanged when it has none; absent when the title is absent.
C6_CandleExtraction ==
    \A r \in Requests : (Normalized(r) /\ Of(ItemsSent(r), "candles") # {}) =>
        LET t == First(ItemsSent(r), "candles").title
        IN  Times(r).candle_lighting =
                IF t = None THEN None
                ELSE IF ContainsColon(t[1]) THEN Some(Strip(AfterFirstColon(t[1])))
                ELSE t

\* C7: parsha is taken from the first parashat item: its hebrew label when
\* that is present, otherwise its title, absent when it has neither.  (A
\* label is read as present when it is a non-empty str.)
C7_ParshaExtraction ==
    \A r \in Requests : (Normalized(r) /\ Of(ItemsSent(r), "parashat") # {}) =>
        LET p == First(ItemsSent(r), "parashat")
        IN  Times(r).parsha = IF Truthy(p.hebrew) THEN p.hebrew ELSE p.title

\* What the loop does guarantee, for every payload: each field is what the
\* first item of its category that yields a value on its own yields, and is
\* absent when no item of the category yields one.
Norm_FirstYieldingItemWins ==
    \A r \in Requests : Normalized(r) =>
        \A c \in Categories :
            LET items == ItemsSent(r)
                yielding == {i \in Of(items, c) : Alone(items[i], c) # None}
            IN  Field(Times(r), c) =
                    IF yielding = {} THEN None
                    ELSE Alone(items[CHOOSE i \in yielding : \A j \in yielding : i <= j], c)

\* The colon rule of C6 holds whenever the first candles item has a title.
Norm_CandleRuleWithTitle ==
    \A r \in Requests : (Normalized(r) /\ Of(ItemsSent(r), "candles") # {}) =>
        LET t == First(ItemsSent(r), "candles").title
        IN  t # None =>
                Times(r).candle_lighting =
                    IF ContainsColon(t[1]) THEN Some(Strip(AfterFirstColon(t[1]))) ELSE t

\* C3: a provider call that ends without an HTTP response (timeout,
\* network failure) is answered with 502 "Upstream provider error".
C3_TransportFailureIs502 ==
    \A r \in Requests : AnsweredFromFailure(r) => Is502(Resp(r))

C5_NotFoundExactMatch ==
    \A r \in Requests : route[r] = "/api/shabbat" =>
        IF city[r] \notin CatalogSlugs
        THEN /\ pc[r] = "done"
             /\ Resp(r) = HTTPException(404, "City not found")
             /\ sent[r] = << >>
             /\ reply[r] = None
        ELSE /\ pc[r] = "done" => Resp(r).status # 404
             /\ Len(sent[r]) >= 1
             /\ \E i \in 1..Len(catalog) :
                    /\ catalog[i].slug = city[r]
                    /\ sent[r][1].latitude = catalog[i].latitude
                    /\ sent[r][1].longitude = catalog[i].longitude
                    /\ sent[r][1].tzid = catalog[i].tzid

\* "London" was answered 404 without a provider request while "london" was
\* sent to the provider.
C5_Witness ==
    \E r1, r2 \in Requests :
        /\ route[r1] = "/api/shabbat" /\ city[r1] = "London"
        /\ pc[r1] = "done" /\ Resp(r1).status = 404 /\ sent[r1] = << >>
        /\ route[r2] = "/api/shabbat" /\ city[r2] = "london"
        /\ Len(sent[r2]) = 1 /\ sent[r2][1].tzid = "Europe/London"

\* C8: the catalog has exactly 20 entries with pairwise distinct slugs,
\* list_cities returns them in declaration order, and the lookup of every
\* catalog slug yields the one entry that has that slug.
C8_CatalogLookup ==
    /\ Len(catalog) = 20
    /\ \A i, j \in 1..Len(catalog) : catalog[i].slug = catalog[j].slug => i = j
    /\ \A i \in 1..Len(catalog) :
           /\ FindCity(catalog, catalog[i].slug) = Some(catalog[i])
           /\ Cardinality({j \in 1..Len(catalog) : catalog[j] = catalog[i]}) = 1
    /\ \A r \in Requests :
           /\ (pc[r] = "done" /\ route[r] = "/api/cities")
                  => Resp(r) = Returned(CITIES)
           /\ (route[r] = "/api/shabbat" /\ city_obj[r] # None)
                  => city_obj[r][1].slug = city[r]

\* The list was returned to one request and a catalog slug was resolved
\* for another.
C8_Witness ==
    \E r1, r2 \in Requests :
        /\ pc[r1] = "done" /\ route[r1] = "/api/cities"
        /\ Len(Resp(r1).content[1]) = 20
        /\ route[r2] = "/api/shabbat" /\ city_obj[r2] # None

\* C9: one GET /api/shabbat issues at most one provider request; after a
\* failed provider call (no response, or a status the client rejects) the
\* request is answered with an error and exactly one request was issued.
C9_SingleAttempt ==
    \A r \in Requests :
        /\ Len(sent[r]) <= 1
        /\ (pc[r] = "done" /\ reply[r] # None
            /\ (reply[r][1].kind # "response" \/ reply[r][1].status # 200))
               => Len(sent[r]) = 1 /\ Resp(r).status \in {500, 502}

\* A request whose provider call timed out and one whose provider call
\* returned 500 were both answered.
C9_Witness ==
    \E r1, r2 \in Requests :
        /\ AnsweredFromFailure(r1) /\ reply[r1][1].kind = "timeout"
        /\ AnsweredFromResponse(r2) /\ reply[r2][1].status = 500
        /\ Len(sent[r1]) = 1 /\ Len(sent[r2]) = 1

\* What C10 compares of a response: everything but the date.
Compared(resp) ==
    [status |-> resp.status, detail |-> resp.detail,
     times |-> IF resp.content = None THEN None
               ELSE LET s == resp.content[1]
                    IN  Some([parsha |-> s.parsha, candle_lighting |-> s.candle_lighting,
                              havdalah |-> s.havdalah, raw |-> s.raw])]

\* C10: in every reachable state the catalog is the one declared at
\* startup, and two answered GET /api/shabbat requests with the same slug
\* and the same provider outcome have the same status, detail, parsha,
\* candle_lighting, havdalah and raw, whatever ran in between.
C10_RequestIndependence ==
    /\ catalog = CITIES
    /\ \A r1, r2 \in Requests :
           (/\ pc[r1] = "done" /\ route[r1] = "/api/shabbat"
            /\ pc[r2] = "done" /\ route[r2] = "/api/shabbat"
            /\ city[r1] = city[r2] /\ reply[r1] = reply[r2])
               => Compared(Resp(r1)) = Compared(Resp(r2))

\* Two requests for the same city got the same payload, one of them after
\* the other had been sent to the provider and after the date had changed.
C10_Witness ==
    \E r1, r2 \in Requests :
        /\ r1 # r2
        /\ Normalized(r1) /\ Normalized(r2)
        /\ city[r1] = city[r2] /\ reply[r1] = reply[r2]
        /\ Times(r1).date # Times(r2).date

====
